---- MODULE Spec2Model ----
(***************************************************************************)
(* Security rota scheduling engine (rota_system.py): the two helper        *)
(* functions calculate_shift_hours and estimate_distance, and the          *)
(* ScheduleGenerator (generate, _assign_day,                               *)
(* _identify_24hr_opportunities), modelled as a state machine.             *)
(*                                                                         *)
(* Python strings that the code inspects character by character (location *)
(* codes, "HH:MM" times) are sequences of one-character strings.  Hours    *)
(* are counted in minutes (sixtieths of an hour), so that every quantity   *)
(* of the code stays an integer: a value h of the code is 60*h here.       *)
(***************************************************************************)
EXTENDS Integers, Sequences, FiniteSets, TLC

VARIABLES
    employees,            \* st.session_state.employees
    sites,                \* st.session_state.sites
    schedule,             \* self.schedule: emp id -> day -> list of shifts
    employee_hours,       \* self.employee_hours: emp id -> minutes
    alerts,               \* self.alerts
    unassigned_shifts,    \* self.unassigned_shifts
    opportunities_24hr,   \* self.opportunities_24hr
    pc,                   \* position inside generate
    day_i,                \* index into self.days of the day being assigned
    day_sites,            \* _assign_day: the sorted sites of the day
    site_i,               \* _assign_day: index into day_sites
    available_employees,  \* _assign_day: the ranked candidates of the site
    i,                    \* _assign_day: the assignment loop's index
    assigned,             \* _assign_day: guards placed at the site
    emp_i,                \* _identify_24hr_opportunities: employee index
    run,                  \* which generate call of the session this is
    first,                \* what the first generate call returned
    call                  \* a call of one of the two helper functions

genVars == <<schedule, employee_hours, alerts, unassigned_shifts, opportunities_24hr>>
loopVars == <<day_i, day_sites, site_i, available_employees, i, assigned, emp_i>>
vars == <<employees, sites, genVars, pc, loopVars, run, first, call>>

-----------------------------------------------------------------------------
(* Bounds of the model.                                                    *)

MaxEmployees == 2
MaxSites == 2
MaxCodeLen == 4

-----------------------------------------------------------------------------
(* Characters and strings.                                                 *)

UpperCase == <<"A","B","C","D","E","F","G","H","I","J","K","L","M",
               "N","O","P","Q","R","S","T","U","V","W","X","Y","Z">>
LowerCase == <<"a","b","c","d","e","f","g","h","i","j","k","l","m",
               "n","o","p","q","r","s","t","u","v","w","x","y","z">>
Digits == <<"0","1","2","3","4","5","6","7","8","9">>

Range(s) == {s[k] : k \in DOMAIN s}

Min(a, b) == IF a <= b THEN a ELSE b

\* str.isalpha on one character
isalpha(c) == c \in Range(UpperCase) \cup Range(LowerCase)

\* str.upper on one character
upperChar(c) ==
    IF c \in Range(LowerCase)
    THEN UpperCase[CHOOSE k \in DOMAIN LowerCase : LowerCase[k] = c]
    ELSE c

\* str.upper
upper(s) == [k \in DOMAIN s |-> upperChar(s[k])]

\* s[:n]
Prefix(s, n) == SubSeq(s, 1, Min(n, Len(s)))

\* ''.join(filter(str.isalpha, s))
FilterAlpha(s) == SelectSeq(s, isalpha)

\* int() of a string of decimal digits
RECURSIVE int(_)
int(s) ==
    IF s = <<>> THEN 0
    ELSE 10 * int(SubSeq(s, 1, Len(s) - 1))
         + (CHOOSE d \in 0..9 : Digits[d + 1] = s[Len(s)])

\* s.split(':') for a string that holds exactly one ':'
SplitColon(s) ==
    LET p == CHOOSE k \in DOMAIN s : s[k] = ":" /\ \A j \in 1..(k - 1) : s[j] # ":"
    IN  <<SubSeq(s, 1, p - 1), SubSeq(s, p + 1, Len(s))>>

\* time.strftime("%H:%M")
strftime(h, m) ==
    <<Digits[(h \div 10) + 1], Digits[(h % 10) + 1], ":",
      Digits[(m \div 10) + 1], Digits[(m % 10) + 1]>>

\* Python's None, as a value that is no string of characters
None == <<"None">>

\* `not s` for a location code: None and '' are falsy
Falsy(s) == s = None \/ s = <<>>

-----------------------------------------------------------------------------
(* The helper functions.                                                   *)

\* calculate_shift_hours with `<` for `<=` at line 99
calculate_shift_hours_strict(start_time, end_time) ==
    LET s == SplitColon(start_time)
        e == SplitColon(end_time)
        start_minutes == int(s[1]) * 60 + int(s[2])
        end_minutes == int(e[1]) * 60 + int(e[2])
    IN  IF end_minutes < start_minutes
        THEN (end_minutes + 24 * 60) - start_minutes
        ELSE end_minutes - start_minutes

\* calculate_shift_hours, in minutes
calculate_shift_hours(start_time, end_time) ==
    LET s == SplitColon(start_time)
        e == SplitColon(end_time)
        start_minutes == int(s[1]) * 60 + int(s[2])
        end_minutes == int(e[1]) * 60 + int(e[2])
    IN  IF end_minutes <= start_minutes
        THEN (end_minutes + 24 * 60) - start_minutes
        ELSE end_minutes - start_minutes

\* the result that stands for estimate_distance raising IndexError
IndexError == -1

\* ''.join(filter(str.isalpha, postcode[:3])).upper()
Area(postcode) == upper(FilterAlpha(Prefix(postcode, 3)))

estimate_distance(postcode1, postcode2) ==
    IF Falsy(postcode1) \/ Falsy(postcode2) THEN 999
    ELSE LET area1 == Area(postcode1)
             area2 == Area(postcode2)
         IN  IF area1 = area2 THEN 5
             ELSE IF area1 = <<>> \/ area2 = <<>> THEN IndexError
             ELSE IF area1[1] = area2[1] THEN 25
             ELSE 50

-----------------------------------------------------------------------------
(* Calls of the helper functions on their own: the inputs are drawn in the *)
(* initial state and the one action returns the function's result.         *)

NoCall == [fn |-> "none", args |-> <<>>, returned |-> FALSE, result |-> 0]

\* the generator's variables while no generator exists
Idle ==
    /\ employees = <<>> /\ sites = <<>>
    /\ schedule = <<>> /\ employee_hours = <<>>
    /\ alerts = <<>> /\ unassigned_shifts = <<>> /\ opportunities_24hr = <<>>
    /\ pc = "idle"
    /\ day_i = 0 /\ day_sites = <<>> /\ site_i = 0
    /\ available_employees = <<>> /\ i = 0 /\ assigned = 0 /\ emp_i = 0
    /\ run = 0 /\ first = <<>>

SeqsUpTo(S, n) == UNION {[1..k -> S] : k \in 0..n}

\* the characters location codes are drawn from: two letters, one of them in
\* both cases, and a digit
CodeChars == {"L", "l", "N", "1"}

Codes == SeqsUpTo(CodeChars, MaxCodeLen) \cup {None}

InitDistance ==
    /\ Idle
    /\ call \in {[fn |-> "estimate_distance", args |-> <<p1, p2>>,
                  returned |-> FALSE, result |-> 0] : p1 \in Codes, p2 \in Codes}

CallEstimateDistance ==
    /\ call.fn = "estimate_distance" /\ ~call.returned
    /\ call' = [call EXCEPT !.returned = TRUE,
                            !.result = estimate_distance(call.args[1], call.args[2])]
    /\ UNCHANGED <<employees, sites, genVars, pc, loopVars, run, first>>

SpecDistance == InitDistance /\ [][CallEstimateDistance]_vars

\* the minutes of the hour the times are drawn from
MinuteSamples == {0, 1, 29, 30, 31, 59}

Times == {strftime(h, m) : h \in 0..23, m \in MinuteSamples}

InitHours ==
    /\ Idle
    /\ call \in {[fn |-> "calculate_shift_hours", args |-> <<s, e>>,
                  returned |-> FALSE, result |-> 0] : s \in Times, e \in Times}

CallShiftHours ==
    /\ call.fn = "calculate_shift_hours" /\ ~call.returned
    /\ call' = [call EXCEPT !.returned = TRUE,
                            !.result = calculate_shift_hours(call.args[1], call.args[2])]
    /\ UNCHANGED <<employees, sites, genVars, pc, loopVars, run, first>>

SpecHours == InitHours /\ [][CallShiftHours]_vars

-----------------------------------------------------------------------------
(* The session's records.                                                  *)

\* ScheduleGenerator.days
days == <<"Monday", "Tuesday", "Wednesday", "Thursday", "Friday", "Saturday", "Sunday">>

AllDays == Range(days)

\* The employees the add-employee form can have stored, without their ids.
\* phone and sia_license are left out: the generator never reads them.
EmployeePool ==
    { [name |-> "John Smith", postcode |-> <<"L","E","1"," ","1","A","A">>,
       max_hours |-> 48, availability |-> AllDays, willing_24hr |-> TRUE],
      [name |-> "Sarah Wilson", postcode |-> <<"N","N","1","8"," ","8","B","B">>,
       max_hours |-> 40,
       availability |-> {"Monday", "Tuesday", "Wednesday", "Thursday", "Friday"},
       willing_24hr |-> FALSE],
      [name |-> "Pat Doe", postcode |-> <<"1","2","3">>,
       max_hours |-> 60, availability |-> {"Saturday", "Sunday"},
       willing_24hr |-> FALSE] }

\* The sites the add-site form can have stored, without their ids.
SitePool ==
    { [name |-> "Geddington-B", client |-> "Taz", postcode |-> <<"N","N","1","8">>,
       guards_required |-> 1,
       shift_start |-> strftime(18, 0), shift_end |-> strftime(6, 0),
       days_operation |-> AllDays],
      [name |-> "Royal Hotel Ashby", client |-> "Taz", postcode |-> <<"L","E","6","5">>,
       guards_required |-> 1,
       shift_start |-> strftime(18, 0), shift_end |-> strftime(6, 0),
       days_operation |-> AllDays],
      [name |-> "Depot", client |-> "Servo", postcode |-> <<"L","E","3">>,
       guards_required |-> 2,
       shift_start |-> strftime(6, 0), shift_end |-> strftime(18, 0),
       days_operation |-> {"Tuesday", "Thursday", "Saturday"}],
      [name |-> "Royal Hotel Ashby", client |-> "Ayam", postcode |-> <<"L","N","1">>,
       guards_required |-> 1,
       shift_start |-> strftime(18, 0), shift_end |-> strftime(6, 0),
       days_operation |-> {"Monday", "Wednesday"}] }

\* manage_employees: the k-th employee added gets id k
NewEmployee(form, id) ==
    [id |-> id, name |-> form.name, postcode |-> form.postcode,
     max_hours |-> form.max_hours, availability |-> form.availability,
     willing_24hr |-> form.willing_24hr]

\* manage_sites: the k-th site added gets id k
NewSite(form, id) ==
    [id |-> id, name |-> form.name, client |-> form.client,
     postcode |-> form.postcode, guards_required |-> form.guards_required,
     shift_start |-> form.shift_start, shift_end |-> form.shift_end,
     days_operation |-> form.days_operation]

EmployeeLists ==
    {[k \in DOMAIN l |-> NewEmployee(l[k], k)] :
        l \in SeqsUpTo(EmployeePool, MaxEmployees) \ {<<>>}}

SiteLists ==
    {[k \in DOMAIN l |-> NewSite(l[k], k)] :
        l \in SeqsUpTo(SitePool, MaxSites) \ {<<>>}}

EmpIds == {employees[k].id : k \in DOMAIN employees}

\* next((e for e in self.employees if e['id'] == emp_id), None)
EmpById(emp_id) ==
    IF emp_id \in EmpIds
    THEN employees[CHOOSE k \in DOMAIN employees :
                      /\ employees[k].id = emp_id
                      /\ \A j \in 1..(k - 1) : employees[j].id # emp_id]
    ELSE None

-----------------------------------------------------------------------------
(* Formatting of the alert messages: a message is the sequence of the      *)
(* pieces its f-string joins.                                              *)

\* a / b rounded to the nearest integer
RoundDiv(a, b) == (2 * a + b) \div (2 * b)

\* f"{x:.1f}" for x given in tenths
Tenths(t) == <<ToString(t \div 10), ".", ToString(t % 10)>>

\* f"{hours:.1f}" for hours given in minutes
FormatHours(minutes) == Tenths(RoundDiv(minutes * 10, 60))

\* f"{(hours/max_hours*100):.1f}" for hours given in minutes
FormatPercent(minutes, max_hours) == Tenths(RoundDiv(minutes * 1000, max_hours * 60))

ErrorAlert(site, day, n) ==
    [type |-> "error",
     message |-> <<site.name, " on ", day, ": Only ", ToString(n), "/",
                   ToString(site.guards_required), " guards assigned">>]

WarningAlert(emp, hours) ==
    [type |-> "warning",
     message |-> <<emp.name, ": ">> \o FormatHours(hours)
                 \o <<"/", ToString(emp.max_hours), " hours (">>
                 \o FormatPercent(hours, emp.max_hours) \o <<"%)">>]

SuccessAlert(emp, today, tomorrow, distance) ==
    [type |-> "success",
     message |-> <<"24hr Opportunity: ", emp.name, " - ", today.site_name, " to ",
                   tomorrow.site_name, " (">> \o Tenths(distance * 10) \o <<" miles)">>]

-----------------------------------------------------------------------------
(* ScheduleGenerator._assign_day: the pieces of one site's turn.           *)

\* line 163 left out
Available_always(emp, day) == TRUE

\* line 163: `if day not in emp['availability']: continue`
Available(emp, day) == day \in emp.availability

\* line 165 with the ledger alone compared with the cap
WithinCap_ledgerOnly(emp, shift_hours) ==
    ~(employee_hours[emp.id] > emp.max_hours * 60)

\* line 165: `if self.employee_hours[id] + shift_hours > emp['max_hours']: continue`
WithinCap(emp, shift_hours) ==
    ~(employee_hours[emp.id] + shift_hours > emp.max_hours * 60)

\* line 167 left out
FreeThatDay_always(emp, day) == TRUE

\* line 167: `if len(self.schedule[id][day]) > 0: continue`
FreeThatDay(emp, day) == ~(Len(schedule[emp.id][day]) > 0)

\* lines 170-177: the entry of one candidate
Candidate(emp, site) ==
    [emp |-> emp,
     distance |-> estimate_distance(emp.postcode, site.postcode),
     workload |-> employee_hours[emp.id]]

\* lines 161-177: available_employees before it is sorted, in input order
Candidates(site, day) ==
    LET shift_hours == calculate_shift_hours(site.shift_start, site.shift_end)
        Passes(emp) == /\ Available(emp, day)
                       /\ WithinCap(emp, shift_hours)
                       /\ FreeThatDay(emp, day)
        passing == SelectSeq(employees, Passes)
    IN  [k \in DOMAIN passing |-> Candidate(passing[k], site)]

\* line 179 with the key (distance, workload)
KeyLess_distanceFirst(a, b) ==
    \/ a.distance < b.distance
    \/ a.distance = b.distance /\ a.workload < b.workload

\* the key of line 179: (workload, distance), compared as Python compares tuples
KeyLess(a, b) ==
    \/ a.workload < b.workload
    \/ a.workload = b.workload /\ a.distance < b.distance

\* list.sort is stable: an element goes behind every element that is not after it
InsertCandidate(sorted, x) ==
    LET n == Cardinality({k \in DOMAIN sorted : ~KeyLess(x, sorted[k])})
    IN  SubSeq(sorted, 1, n) \o <<x>> \o SubSeq(sorted, n + 1, Len(sorted))

\* line 179: available_employees.sort(key=lambda x: (x['workload'], x['distance']))
RECURSIVE SortCandidates(_)
SortCandidates(list) ==
    IF list = <<>> THEN <<>>
    ELSE InsertCandidate(SortCandidates(SubSeq(list, 1, Len(list) - 1)), list[Len(list)])

\* a descending sort that puts a site before the earlier sites it ties with
InsertSite_unstable(sorted, x) ==
    LET n == Cardinality({k \in DOMAIN sorted :
                             sorted[k].guards_required > x.guards_required})
    IN  SubSeq(sorted, 1, n) \o <<x>> \o SubSeq(sorted, n + 1, Len(sorted))

\* reverse=True keeps the input order of sites with equal guards_required
InsertSite(sorted, x) ==
    LET n == Cardinality({k \in DOMAIN sorted :
                             sorted[k].guards_required >= x.guards_required})
    IN  SubSeq(sorted, 1, n) \o <<x>> \o SubSeq(sorted, n + 1, Len(sorted))

\* line 155: day_sites.sort(key=lambda x: x['guards_required'], reverse=True)
RECURSIVE SortSites(_)
SortSites(list) ==
    IF list = <<>> THEN <<>>
    ELSE InsertSite(SortSites(SubSeq(list, 1, Len(list) - 1)), list[Len(list)])

\* line 154: the sites operating on the day, in input order
Operates(site, day) == day \in site.days_operation

DaySites(day) ==
    LET OnDay(site) == Operates(site, day)
    IN  SortSites(SelectSeq(sites, OnDay))

\* lines 185-193: the shift stored in the schedule
Shift(site) ==
    [site_id |-> site.id, site_name |-> site.name, client |-> site.client,
     postcode |-> site.postcode, start |-> site.shift_start, end |-> site.shift_end,
     hours |-> calculate_shift_hours(site.shift_start, site.shift_end)]

\* line 198 with `<=` for `<`
Short_orEqual(site, n) == n <= site.guards_required

\* line 198: `if assigned < site['guards_required']`
Short(site, n) == n < site.guards_required

\* lines 199-204 with the number placed left at 0
UnassignedShift_noCount(site, day, n) ==
    [day |-> day, site |-> site.name, required |-> site.guards_required, assigned |-> 0]

\* lines 199-204
UnassignedShift(site, day, n) ==
    [day |-> day, site |-> site.name, required |-> site.guards_required, assigned |-> n]

\* line 212 with `>=`
OverThreshold_orEqual(emp, hours) == hours * 10 >= emp.max_hours * 60 * 9

\* line 212: `hours > emp['max_hours'] * 0.9`
OverThreshold(emp, hours) == hours * 10 > emp.max_hours * 60 * 9

\* lines 210-216: the warnings of one day, in the order of the ledger's keys
RECURSIVE Warnings(_)
Warnings(n) ==
    IF n = 0 THEN <<>>
    ELSE LET emp == employees[n]
         IN  Warnings(n - 1) \o
             (IF OverThreshold(emp, employee_hours[emp.id])
              THEN <<WarningAlert(emp, employee_hours[emp.id])>>
              ELSE <<>>)

-----------------------------------------------------------------------------
(* ScheduleGenerator._identify_24hr_opportunities: one employee's week.    *)

\* lines 229-236 without the distance: the pair days[k], days[k+1] touches
Touching(week_schedule, k) ==
    /\ Len(week_schedule[days[k]]) = 1
    /\ Len(week_schedule[days[k + 1]]) = 1
    /\ week_schedule[days[k]][1].end = week_schedule[days[k + 1]][1].start

\* line 234
PairDistance(week_schedule, k) ==
    estimate_distance(week_schedule[days[k]][1].postcode,
                      week_schedule[days[k + 1]][1].postcode)

\* line 236 with the bound at 50
CloseEnough_50(distance) == distance <= 50

\* line 236
CloseEnough(distance) == distance <= 30

\* line 225: enumerate(self.days[:-1])
PairIndexes == [k \in 1..(Len(days) - 1) |-> k]

\* the pairs of the employee that yield an opportunity, in order; a pair at
\* which estimate_distance raises ends the scan
OpportunityPairs(week_schedule) ==
    LET Raises(k) == /\ Touching(week_schedule, k)
                     /\ PairDistance(week_schedule, k) = IndexError
        Hit(k) == /\ Touching(week_schedule, k)
                  /\ CloseEnough(PairDistance(week_schedule, k))
                  /\ \A j \in 1..k : ~Raises(j)
    IN  SelectSeq(PairIndexes, Hit)

\* lines 237-243
Opportunity(emp, week_schedule, k) ==
    [employee |-> emp.name,
     day |-> <<days[k], "-", days[k + 1]>>,
     site1 |-> week_schedule[days[k]][1].site_name,
     site2 |-> week_schedule[days[k + 1]][1].site_name,
     distance |-> PairDistance(week_schedule, k)]

\* estimate_distance raises inside the scan of this week
PairRaises(week_schedule) ==
    \E k \in 1..(Len(days) - 1) :
        Touching(week_schedule, k) /\ PairDistance(week_schedule, k) = IndexError

-----------------------------------------------------------------------------
(* The generator as a state machine.  pc is the position inside generate:  *)
(* "constructed" (before generate), "day" (line 144), "site" (line 157),   *)
(* "assign" (line 181), "opps" (line 220), "done" (generate returned),     *)
(* "raised" (an exception left generate).                                  *)

\* what one generate call leaves behind
Outcome ==
    [pc |-> pc, schedule |-> schedule, alerts |-> alerts,
     unassigned_shifts |-> unassigned_shifts,
     opportunities_24hr |-> opportunities_24hr]

\* generate_schedule_page has checked that both lists are non-empty and has
\* constructed the generator (__init__)
Init ==
    /\ employees \in EmployeeLists
    /\ sites \in SiteLists
    /\ schedule = <<>> /\ employee_hours = <<>>
    /\ alerts = <<>> /\ unassigned_shifts = <<>> /\ opportunities_24hr = <<>>
    /\ pc = "constructed"
    /\ day_i = 0 /\ day_sites = <<>> /\ site_i = 0
    /\ available_employees = <<>> /\ i = 0 /\ assigned = 0 /\ emp_i = 0
    /\ run = 1 /\ first = <<>>
    /\ call = NoCall

\* generate, lines 136-141: load_data and the initial ledger and schedule
Generate ==
    /\ pc = "constructed"
    /\ employee_hours' =
           [id \in (DOMAIN employee_hours) \cup EmpIds |->
               IF id \in EmpIds THEN 0 ELSE employee_hours[id]]
    /\ schedule' =
           [id \in (DOMAIN schedule) \cup EmpIds |->
               IF id \in EmpIds THEN [d \in AllDays |-> <<>>] ELSE schedule[id]]
    /\ day_i' = 1
    /\ pc' = "day"
    /\ UNCHANGED <<employees, sites, alerts, unassigned_shifts, opportunities_24hr,
                   day_sites, site_i, available_employees, i, assigned, emp_i,
                   run, first, call>>

\* line 144 entering _assign_day, lines 154-155
AssignDay ==
    /\ pc = "day" /\ day_i <= Len(days)
    /\ day_sites' = DaySites(days[day_i])
    /\ site_i' = 1
    /\ pc' = "site"
    /\ UNCHANGED <<employees, sites, genVars, day_i, available_employees, i,
                   assigned, emp_i, run, first, call>>

\* lines 157-179: the next site of the day, its candidates ranked
BeginSite ==
    /\ pc = "site" /\ site_i <= Len(day_sites)
    /\ LET list == Candidates(day_sites[site_i], days[day_i])
       IN  IF \E k \in DOMAIN list : list[k].distance = IndexError
           THEN /\ pc' = "raised"
                /\ UNCHANGED <<available_employees, i, assigned>>
           ELSE /\ available_employees' = SortCandidates(list)
                /\ assigned' = 0
                /\ i' = 1
                /\ pc' = "assign"
    /\ UNCHANGED <<employees, sites, genVars, day_i, day_sites, site_i, emp_i,
                   run, first, call>>

\* lines 181-196: one pass of the assignment loop
AssignGuard ==
    /\ pc = "assign"
    /\ i <= Min(day_sites[site_i].guards_required, Len(available_employees))
    /\ LET site == day_sites[site_i]
           emp == available_employees[i].emp
           day == days[day_i]
       IN  /\ schedule' = [schedule EXCEPT ![emp.id][day] = Append(@, Shift(site))]
           /\ employee_hours' =
                  [employee_hours EXCEPT ![emp.id] = @ + Shift(site).hours]
    /\ assigned' = assigned + 1
    /\ i' = i + 1
    /\ UNCHANGED <<employees, sites, alerts, unassigned_shifts, opportunities_24hr,
                   pc, day_i, day_sites, site_i, available_employees, emp_i,
                   run, first, call>>

\* lines 198-208: the loop is over; a shortfall is recorded, and the next site
EndSite ==
    /\ pc = "assign"
    /\ i > Min(day_sites[site_i].guards_required, Len(available_employees))
    /\ LET site == day_sites[site_i]
           day == days[day_i]
       IN  IF Short(site, assigned)
           THEN /\ unassigned_shifts' =
                       Append(unassigned_shifts, UnassignedShift(site, day, assigned))
                /\ alerts' = Append(alerts, ErrorAlert(site, day, assigned))
           ELSE UNCHANGED <<unassigned_shifts, alerts>>
    /\ site_i' = site_i + 1
    /\ pc' = "site"
    /\ UNCHANGED <<employees, sites, schedule, employee_hours, opportunities_24hr,
                   day_i, day_sites, available_employees, i, assigned, emp_i,
                   run, first, call>>

\* lines 210-216: all sites of the day are done; the warnings, and the next day
EndDay ==
    /\ pc = "site" /\ site_i > Len(day_sites)
    /\ alerts' = alerts \o Warnings(Len(employees))
    /\ day_i' = day_i + 1
    /\ pc' = "day"
    /\ UNCHANGED <<employees, sites, schedule, employee_hours, unassigned_shifts,
                   opportunities_24hr, day_sites, site_i, available_employees, i,
                   assigned, emp_i, run, first, call>>

\* line 148 reached with the last day still to assign
BeginOpportunities_early ==
    /\ pc = "day" /\ day_i > Len(days) - 1
    /\ emp_i' = 1
    /\ pc' = "opps"
    /\ UNCHANGED <<employees, sites, genVars, day_i, day_sites, site_i,
                   available_employees, i, assigned, run, first, call>>

\* line 148: the week is built, _identify_24hr_opportunities starts
BeginOpportunities ==
    /\ pc = "day" /\ day_i > Len(days)
    /\ emp_i' = 1
    /\ pc' = "opps"
    /\ UNCHANGED <<employees, sites, genVars, day_i, day_sites, site_i,
                   available_employees, i, assigned, run, first, call>>

\* lines 220-248: one employee of the schedule (its keys are in input order)
ScanEmployee ==
    /\ pc = "opps" /\ emp_i <= Len(employees)
    /\ LET emp == EmpById(employees[emp_i].id)
           week_schedule == schedule[emp.id]
           pairs == IF emp.willing_24hr THEN OpportunityPairs(week_schedule) ELSE <<>>
       IN  /\ opportunities_24hr' = opportunities_24hr \o
                  [k \in DOMAIN pairs |-> Opportunity(emp, week_schedule, pairs[k])]
           /\ alerts' = alerts \o
                  [k \in DOMAIN pairs |->
                      SuccessAlert(emp, week_schedule[days[pairs[k]]][1],
                                   week_schedule[days[pairs[k] + 1]][1],
                                   PairDistance(week_schedule, pairs[k]))]
           /\ IF emp.willing_24hr /\ PairRaises(week_schedule)
              THEN pc' = "raised" /\ emp_i' = emp_i
              ELSE pc' = "opps" /\ emp_i' = emp_i + 1
    /\ UNCHANGED <<employees, sites, schedule, employee_hours, unassigned_shifts,
                   day_i, day_sites, site_i, available_employees, i, assigned,
                   run, first, call>>

\* line 150: return self.schedule, self.alerts, self.unassigned_shifts
Return ==
    /\ pc = "opps" /\ emp_i > Len(employees)
    /\ pc' = "done"
    /\ UNCHANGED <<employees, sites, genVars, loopVars, run, first, call>>

\* NewGenerator with the alert list shared between the instances
NewGenerator_sharedAlerts ==
    /\ pc \in {"done", "raised"} /\ run = 1
    /\ first' = Outcome
    /\ run' = 2
    /\ schedule' = <<>> /\ employee_hours' = <<>>
    /\ unassigned_shifts' = <<>> /\ opportunities_24hr' = <<>>
    /\ pc' = "constructed"
    /\ day_i' = 0 /\ day_sites' = <<>> /\ site_i' = 0
    /\ available_employees' = <<>> /\ i' = 0 /\ assigned' = 0 /\ emp_i' = 0
    /\ UNCHANGED <<employees, sites, alerts, call>>

\* generate_schedule_page, line 646, pressed a second time: a new generator
\* (__init__, lines 120-127) over the same session records
NewGenerator ==
    /\ pc \in {"done", "raised"} /\ run = 1
    /\ first' = Outcome
    /\ run' = 2
    /\ schedule' = <<>> /\ employee_hours' = <<>>
    /\ alerts' = <<>> /\ unassigned_shifts' = <<>> /\ opportunities_24hr' = <<>>
    /\ pc' = "constructed"
    /\ day_i' = 0 /\ day_sites' = <<>> /\ site_i' = 0
    /\ available_employees' = <<>> /\ i' = 0 /\ assigned' = 0 /\ emp_i' = 0
    /\ UNCHANGED <<employees, sites, call>>

Next ==
    \/ Generate
    \/ AssignDay
    \/ BeginSite
    \/ AssignGuard
    \/ EndSite
    \/ EndDay
    \/ BeginOpportunities
    \/ ScanEmployee
    \/ Return

\* one generate call on one generator
Spec == Init /\ [][Next]_vars

NextTwice ==
    \/ Next
    \/ NewGenerator

\* a generate call, and then a second one on a new generator
SpecTwice == Init /\ [][NextTwice]_vars

\* generate (line 134) called once more on the same generator: nothing is
\* constructed anew, the lists of lines 125-127 are the ones the first call
\* left, and lines 139-141 (Generate) reset the ledger and the schedule only
GenerateAgain ==
    /\ pc \in {"done", "raised"} /\ run = 1
    /\ first' = Outcome
    /\ run' = 2
    /\ pc' = "constructed"
    /\ day_i' = 0 /\ day_sites' = <<>> /\ site_i' = 0
    /\ available_employees' = <<>> /\ i' = 0 /\ assigned' = 0 /\ emp_i' = 0
    /\ UNCHANGED <<employees, sites, genVars, call>>

NextAgain ==
    \/ Next
    \/ GenerateAgain

\* a generate call, and then a second one on the same generator
SpecAgain == Init /\ [][NextAgain]_vars

-----------------------------------------------------------------------------
(* Claims about the helper functions.                                      *)

Returned(fn) == call.fn = fn /\ call.returned

\* C6: estimate_distance returns a number for every pair of location codes
\* and never fails: 999 when either code is missing or empty, and otherwise
\* one of 5, 25, 50, also for codes with no letter among the first three
\* characters.
C6_NeverFails ==
    Returned("estimate_distance") =>
        IF Falsy(call.args[1]) \/ Falsy(call.args[2])
        THEN call.result = 999
        ELSE call.result \in {5, 25, 50}

\* the leading alphabetic run of s
RECURSIVE LeadingAlpha(_)
LeadingAlpha(s) ==
    IF s = <<>> \/ ~isalpha(s[1]) THEN <<>>
    ELSE <<s[1]>> \o LeadingAlpha(SubSeq(s, 2, Len(s)))

\* the area tag as the specification words it: the leading alphabetic run,
\* cut at the first non-letter and at the first 3 characters, uppercased
LeadingArea(postcode) == upper(LeadingAlpha(Prefix(postcode, 3)))

ReferenceDistance(postcode1, postcode2) ==
    LET area1 == LeadingArea(postcode1)
        area2 == LeadingArea(postcode2)
    IN  IF area1 = area2 THEN 5
        ELSE IF area1 # <<>> /\ area2 # <<>> /\ area1[1] = area2[1] THEN 25
        ELSE 50

\* C7: for every pair of non-empty location codes estimate_distance equals
\* the reference built on the leading alphabetic run: 5 for identical tags,
\* else 25 for tags with the same first letter, else 50.
C7_EqualsReference ==
    (Returned("estimate_distance") /\ ~Falsy(call.args[1]) /\ ~Falsy(call.args[2])) =>
        call.result = ReferenceDistance(call.args[1], call.args[2])

\* the minutes since midnight of a time string, read back through strftime
MinutesOf(time) ==
    LET hm == CHOOSE p \in (0..23) \X MinuteSamples : strftime(p[1], p[2]) = time
    IN  hm[1] * 60 + hm[2]

\* C8: for valid "HH:MM" times calculate_shift_hours is (end - start)/60 when
\* end is after start and (end + 1440 - start)/60 otherwise; the result in
\* minutes lies in 1..1440; equal times give 24 hours, 18:00 to 06:00 gives
\* 12 hours and 09:00 to 17:00 gives 8 hours.
C8_ShiftHours ==
    Returned("calculate_shift_hours") =>
        LET start == MinutesOf(call.args[1])
            end == MinutesOf(call.args[2])
        IN  /\ end > start => call.result = end - start
            /\ end <= start => call.result = end + 1440 - start
            /\ call.result \in 1..1440
            /\ call.args[1] = call.args[2] => call.result = 24 * 60
            /\ call.args = <<strftime(18, 0), strftime(6, 0)>> => call.result = 12 * 60
            /\ call.args = <<strftime(9, 0), strftime(17, 0)>> => call.result = 8 * 60

\* an overnight shift and a same-time shift have both been computed
C8_Witness ==
    /\ Returned("calculate_shift_hours")
    /\ call.args[1] = call.args[2]
    /\ call.args[1] = strftime(8, 0)
    /\ call.result = 24 * 60

-----------------------------------------------------------------------------
(* Claims about generate.                                                  *)

\* generate has initialised the ledger and the schedule
Started == pc \in {"day", "site", "assign", "opps", "done", "raised"}

DayIndexes == 1..Len(days)

RECURSIVE SumHours(_)
SumHours(shifts) ==
    IF shifts = <<>> THEN 0
    ELSE shifts[1].hours + SumHours(SubSeq(shifts, 2, Len(shifts)))

RECURSIVE WeekHours(_, _)
\* the hours of the assignments recorded for the employee on days[1..n]
WeekHours(emp_id, n) ==
    IF n = 0 THEN 0
    ELSE WeekHours(emp_id, n - 1) + SumHours(schedule[emp_id][days[n]])

AssignedHours(emp) == WeekHours(emp.id, Len(days))

\* the employee is among the candidates of the site being staffed
IsCandidate(emp) ==
    \E k \in DOMAIN available_employees : available_employees[k].emp.id = emp.id

\* the length of the shift of the site being staffed, from its two times
CurrentShiftMinutes ==
    LET site == day_sites[site_i]
        m == MinutesOf(site.shift_end) - MinutesOf(site.shift_start)
    IN  IF m <= 0 THEN m + 1440 ELSE m

\* C1: in every state of generate the hours of the assignments recorded for
\* an employee sum to at most max_hours; no employee who would exceed
\* max_hours with the shift is a candidate still to be assigned, and an
\* available, free employee whose hours plus the shift equal max_hours is one.
C1_HoursCap ==
    Started =>
        /\ \A k \in DOMAIN employees :
               AssignedHours(employees[k]) <= employees[k].max_hours * 60
        /\ pc = "assign" =>
               /\ \A k \in i..Len(available_employees) :
                      LET emp == available_employees[k].emp
                      IN  employee_hours[emp.id] + CurrentShiftMinutes
                              <= emp.max_hours * 60
               /\ \A k \in DOMAIN employees :
                      LET emp == employees[k]
                      IN  (/\ days[day_i] \in emp.availability
                           /\ schedule[emp.id][days[day_i]] = <<>>
                           /\ employee_hours[emp.id] + CurrentShiftMinutes
                                  = emp.max_hours * 60)
                          => IsCandidate(emp)

\* a site is being staffed while one employee sits exactly at the cap, reached
\* through an assignment, and is left out for the cap alone
C1_Witness ==
    /\ pc = "assign"
    /\ \E k \in DOMAIN employees :
           LET emp == employees[k]
           IN  /\ AssignedHours(emp) = emp.max_hours * 60
               /\ days[day_i] \in emp.availability
               /\ schedule[emp.id][days[day_i]] = <<>>
               /\ ~IsCandidate(emp)

\* C2: in every state of generate every employee has 0 or 1 assignments on
\* every weekday.
C2_OneShiftPerDay ==
    Started =>
        \A k \in DOMAIN employees : \A d \in AllDays :
            Len(schedule[employees[k].id][d]) <= 1

\* a second site of the day is being staffed and an employee who is available
\* and within the cap is left out because of the day's earlier assignment
C2_Witness ==
    /\ pc = "assign"
    /\ \E k \in DOMAIN employees :
           LET emp == employees[k]
               today == schedule[emp.id][days[day_i]]
           IN  /\ Len(today) = 1
               /\ today[1].site_id # day_sites[site_i].id
               /\ days[day_i] \in emp.availability
               /\ employee_hours[emp.id] + CurrentShiftMinutes <= emp.max_hours * 60
               /\ ~IsCandidate(emp)
               /\ assigned < day_sites[site_i].guards_required
               /\ i > Len(available_employees)

\* the assignments of the schedule to the site on the day, as
\* (employee index, position) pairs
AssignmentsAt(d, site) ==
    UNION { { <<k, j>> : j \in { j \in DOMAIN schedule[employees[k].id][d] :
                                   schedule[employees[k].id][d][j].site_id = site.id } }
            : k \in DOMAIN employees }

AssignedCount(d, site) == Cardinality(AssignmentsAt(d, site))

\* C3 as stated: after generate, for every weekday and every site the number
\* assigned is at most guards_required, and it is less than guards_required
\* if and only if unassigned_shifts has an entry with that day and that site.
C3_AllPairs ==
    pc = "done" =>
        \A d \in AllDays : \A s \in DOMAIN sites :
            /\ AssignedCount(d, sites[s]) <= sites[s].guards_required
            /\ AssignedCount(d, sites[s]) < sites[s].guards_required
                   <=> \E k \in DOMAIN unassigned_shifts :
                           /\ unassigned_shifts[k].day = d
                           /\ unassigned_shifts[k].site = sites[s].name

\* the (day, site index) pairs of operating sites left short
ShortPairs ==
    { p \in AllDays \X (DOMAIN sites) :
        /\ p[1] \in sites[p[2]].days_operation
        /\ AssignedCount(p[1], sites[p[2]]) < sites[p[2]].guards_required }

\* the entry unassigned_shifts is to hold for a short pair
EntryFor(d, site) ==
    [day |-> d, site |-> site.name, required |-> site.guards_required,
     assigned |-> AssignedCount(d, site)]

\* C3 amended: after generate, for every weekday and every site operating on
\* it the number assigned is at most guards_required, and it is less if and
\* only if unassigned_shifts has the entry of that day and that site (its
\* name, guards_required and the number assigned); a site that does not
\* operate on the day has no assignment, and no entry is made for it.
C3_OperatingPairs ==
    pc = "done" =>
        /\ \A d \in AllDays : \A s \in DOMAIN sites :
               IF d \in sites[s].days_operation
               THEN /\ AssignedCount(d, sites[s]) <= sites[s].guards_required
                    /\ AssignedCount(d, sites[s]) < sites[s].guards_required
                           <=> \E k \in DOMAIN unassigned_shifts :
                                   unassigned_shifts[k] = EntryFor(d, sites[s])
               ELSE AssignedCount(d, sites[s]) = 0
        /\ Len(unassigned_shifts) = Cardinality(ShortPairs)

\* generate is over with a site left short on one day, fully staffed on
\* another, and closed on a third
C3_Witness ==
    /\ pc = "done"
    /\ \E s \in DOMAIN sites : \E d1, d2, d3 \in AllDays :
           /\ <<d1, s>> \in ShortPairs
           /\ d2 \in sites[s].days_operation
           /\ AssignedCount(d2, sites[s]) = sites[s].guards_required
           /\ d3 \notin sites[s].days_operation

\* the site record with the id
SiteById(site_id) == sites[CHOOSE s \in DOMAIN sites : sites[s].id = site_id]

\* C4: every assignment of the schedule is on a day of the employee's
\* availability and of the site's days_operation.
C4_AvailableAndOperating ==
    Started =>
        \A k \in DOMAIN employees : \A d \in AllDays :
            \A j \in DOMAIN schedule[employees[k].id][d] :
                /\ d \in employees[k].availability
                /\ d \in SiteById(schedule[employees[k].id][d][j].site_id).days_operation

\* generate is over; an employee with assignments and hours to spare was not
\* placed at a site left short on a day outside the employee's availability
C4_Witness ==
    /\ pc = "done"
    /\ \E k \in DOMAIN employees : \E p \in ShortPairs :
           LET emp == employees[k]
           IN  /\ p[1] \notin emp.availability
               /\ AssignedHours(emp) > 0
               /\ AssignedHours(emp) + Shift(sites[p[2]]).hours <= emp.max_hours * 60

\* the alerts of one type, in order
AlertsOfType(type) ==
    LET IsType(a) == a.type = type
    IN  SelectSeq(alerts, IsType)

\* C5: understaffing is recorded and the run goes on: every entry of
\* unassigned_shifts has its error alert, in the same order and with the same
\* site, day and counts, so the two are equally many; and when generate
\* returns, each operating site left short on a day, on whichever day of the
\* week and with no guard at all or with some, has its one entry holding the
\* day, the site, guards_required and the number placed.
C5_Understaffing ==
    Started =>
        /\ AlertsOfType("error") =
               [k \in DOMAIN unassigned_shifts |->
                   [type |-> "error",
                    message |-> <<unassigned_shifts[k].site, " on ",
                                  unassigned_shifts[k].day, ": Only ",
                                  ToString(unassigned_shifts[k].assigned), "/",
                                  ToString(unassigned_shifts[k].required),
                                  " guards assigned">>]]
        /\ pc = "done" =>
               /\ Len(unassigned_shifts) = Cardinality(ShortPairs)
               /\ \A p \in ShortPairs :
                      Cardinality({k \in DOMAIN unassigned_shifts :
                                      unassigned_shifts[k] = EntryFor(p[1], sites[p[2]])})
                      = Cardinality({q \in ShortPairs :
                                      EntryFor(q[1], sites[q[2]])
                                          = EntryFor(p[1], sites[p[2]])})

\* generate returned although on one day one site got no guard and another
\* one guard of two, and guards were placed on a later day
C5_Witness ==
    /\ pc = "done"
    /\ \E k1, k2 \in DOMAIN unassigned_shifts :
           /\ unassigned_shifts[k1].day = unassigned_shifts[k2].day
           /\ unassigned_shifts[k1].assigned = 0
           /\ unassigned_shifts[k2].assigned = 1
           /\ unassigned_shifts[k2].required = 2
           /\ \E d \in DayIndexes : \E s \in DOMAIN sites :
                  /\ \E e \in 1..(d - 1) : days[e] = unassigned_shifts[k1].day
                  /\ AssignedCount(days[d], sites[s]) > 0

\* the condition of an opportunity for the employee and the pair
\* days[d], days[d + 1], from the schedule
Mergeable(emp, d) ==
    LET today == schedule[emp.id][days[d]]
        tomorrow == schedule[emp.id][days[d + 1]]
    IN  /\ emp.willing_24hr
        /\ Len(today) = 1
        /\ Len(tomorrow) = 1
        /\ today[1].end = tomorrow[1].start
        /\ estimate_distance(SiteById(today[1].site_id).postcode,
                             SiteById(tomorrow[1].site_id).postcode) \in 0..30

\* the (employee index, day index) pairs that are to yield an opportunity
MergeablePairs ==
    { p \in (DOMAIN employees) \X (1..(Len(days) - 1)) :
        Mergeable(employees[p[1]], p[2]) }

\* C9: after generate the opportunity list holds, for every employee and
\* every ordered pair of weekdays, one entry if the pair is one of
\* Monday-Tuesday .. Saturday-Sunday and the employee is willing_24hr, has
\* exactly one assignment on each day, the first ending at the string the
\* second starts at, with estimate_distance of the two sites at most 30, and
\* no entry otherwise (none for Sunday-Monday); it holds nothing else, and
\* the success alerts are as many as the opportunities.
C9_Opportunities ==
    pc = "done" =>
        /\ \A k \in DOMAIN employees : \A d1, d2 \in DayIndexes :
               Cardinality({j \in DOMAIN opportunities_24hr :
                               /\ opportunities_24hr[j].employee = employees[k].name
                               /\ opportunities_24hr[j].day = <<days[d1], "-", days[d2]>>})
               = Cardinality({p \in MergeablePairs :
                               /\ employees[p[1]].name = employees[k].name
                               /\ p[2] = d1
                               /\ d2 = d1 + 1})
        /\ Len(opportunities_24hr) = Cardinality(MergeablePairs)
        /\ Len(AlertsOfType("success")) = Len(opportunities_24hr)

\* the pair days[d], days[d + 1] of the employee touches end to start
TouchingDays(emp, d) ==
    LET today == schedule[emp.id][days[d]]
        tomorrow == schedule[emp.id][days[d + 1]]
    IN  Len(today) = 1 /\ Len(tomorrow) = 1 /\ today[1].end = tomorrow[1].start

\* generate returned with an opportunity between two sites of one area
\* recorded, while an unwilling employee had a touching pair too
C9_Witness ==
    /\ pc = "done"
    /\ \E j \in DOMAIN opportunities_24hr : opportunities_24hr[j].distance = 5
    /\ \E k \in DOMAIN employees : \E d \in 1..(Len(days) - 1) :
           /\ ~employees[k].willing_24hr
           /\ TouchingDays(employees[k], d)

IsPrefix(a, b) == Len(a) <= Len(b) /\ SubSeq(b, 1, Len(a)) = a

\* C11: opportunity detection starts only when the assignment step of all
\* seven days is over, and only it touches the opportunity list or adds a
\* success alert; its steps leave the schedule, the ledger and the
\* unassigned-shift list as they are and only append to the opportunity list
\* and to the alert list.
C11_DetectionLastAndAdvisory ==
    [][ /\ pc' = "opps" =>
               /\ day_i' = Len(days) + 1
               /\ site_i' > Len(day_sites')
        /\ (\/ opportunities_24hr' # opportunities_24hr
            \/ AlertsOfType("success")' # AlertsOfType("success")) => pc = "opps"
        /\ pc = "opps" =>
               /\ schedule' = schedule
               /\ employee_hours' = employee_hours
               /\ unassigned_shifts' = unassigned_shifts
               /\ IsPrefix(opportunities_24hr, opportunities_24hr')
               /\ IsPrefix(alerts, alerts')
      ]_vars

\* detection has recorded an opportunity after a week in which guards were
\* placed and a shortfall was recorded
C11_Witness ==
    /\ pc = "opps" /\ emp_i > 1 /\ day_i = Len(days) + 1
    /\ opportunities_24hr # <<>>
    /\ unassigned_shifts # <<>>
    /\ \E e \in DOMAIN employees : employee_hours[employees[e].id] > 0

\* the assignment loop of the site being staffed is over
SiteStaffed ==
    /\ pc = "assign"
    /\ i > Min(day_sites[site_i].guards_required, Len(available_employees))

\* the employee holds today's shift at the site being staffed
AssignedHere(emp) ==
    /\ schedule[emp.id][days[day_i]] # <<>>
    /\ schedule[emp.id][days[day_i]][1].site_id = day_sites[site_i].id

\* the employee was a candidate of the site being staffed and got no shift:
\* works that day, has no shift that day, and the shift fits under max_hours
LeftOut(emp) ==
    /\ days[day_i] \in emp.availability
    /\ schedule[emp.id][days[day_i]] = <<>>
    /\ employee_hours[emp.id] + CurrentShiftMinutes <= emp.max_hours * 60

\* the ledger of the employee when the site being staffed was reached
HoursThen(emp) ==
    IF AssignedHere(emp) THEN employee_hours[emp.id] - CurrentShiftMinutes
    ELSE employee_hours[emp.id]

\* the distance of the employee to the site being staffed
DistanceHere(emp) == estimate_distance(emp.postcode, day_sites[site_i].postcode)

\* the employees of the session as a set
EmployeeSet == Range(employees)

\* C12: when the assignment loop of a site is over, min(guards_required,
\* number of candidates) candidates hold the shift; no candidate left out had
\* strictly fewer ledger hours, when the site was reached, than one who holds
\* it, and none left out with equal hours is strictly closer to the site.
C12_RankedByHoursThenDistance ==
    SiteStaffed =>
        LET here == {e \in EmployeeSet : AssignedHere(e)}
            out == {e \in EmployeeSet : LeftOut(e)}
        IN  /\ Cardinality(here) =
                   Min(day_sites[site_i].guards_required,
                       Cardinality(here) + Cardinality(out))
            /\ \A a \in here : \A u \in out :
                   /\ HoursThen(u) >= HoursThen(a)
                   /\ HoursThen(u) = HoursThen(a) =>
                          DistanceHere(u) >= DistanceHere(a)

\* a far employee with fewer hours holds the shift while a nearer employee
\* with more hours was left out
C12_Witness ==
    /\ SiteStaffed
    /\ \E a \in EmployeeSet : \E u \in EmployeeSet :
           /\ AssignedHere(a) /\ LeftOut(u)
           /\ HoursThen(a) < HoursThen(u)
           /\ DistanceHere(u) < DistanceHere(a)

\* the position of a site of the day in the input list
InputPosition(site) == CHOOSE s \in DOMAIN sites : sites[s] = site

\* the sites of the day are being processed
ProcessingSites == pc \in {"site", "assign"} /\ day_i <= Len(days)

\* C13: while the sites of a day are processed, the processing order holds
\* exactly the sites operating that day, by guards_required descending and,
\* for equal guards_required, in input order; the sites before the current
\* one are finished and no site after the current one has a guard for the
\* day yet, so the earlier-processed site draws on the employees first.
C13_LargestRequirementFirst ==
    ProcessingSites =>
        LET today == days[day_i]
        IN  /\ Range(day_sites) = {sites[s] : s \in {s \in DOMAIN sites :
                                                         today \in sites[s].days_operation}}
            /\ Len(day_sites) = Cardinality(Range(day_sites))
            /\ \A j \in DOMAIN day_sites : \A k \in DOMAIN day_sites :
                   j < k =>
                       \/ day_sites[j].guards_required > day_sites[k].guards_required
                       \/ /\ day_sites[j].guards_required = day_sites[k].guards_required
                          /\ InputPosition(day_sites[j]) < InputPosition(day_sites[k])
            /\ \A k \in DOMAIN day_sites :
                   /\ k > site_i => AssignedCount(today, day_sites[k]) = 0
                   /\ (k = site_i /\ pc = "site") =>
                          AssignedCount(today, day_sites[k]) = 0
                   /\ k < site_i =>
                          \/ AssignedCount(today, day_sites[k]) =
                                 day_sites[k].guards_required
                          \/ \E u \in DOMAIN unassigned_shifts :
                                 /\ unassigned_shifts[u].day = today
                                 /\ unassigned_shifts[u].site = day_sites[k].name

\* the second site of the input asks for more guards, was processed first and
\* took both employees; the first site of the input comes after it and is
\* left without a guard
C13_Witness ==
    /\ SiteStaffed /\ site_i = 2
    /\ day_sites[1] = sites[2] /\ day_sites[2] = sites[1]
    /\ AssignedCount(days[day_i], day_sites[1]) = 2
    /\ available_employees = <<>> /\ assigned = 0

\* the days whose assignment step is over
DaysDone == day_i - 1

\* the hours of the employee's assignments up to days[d] are strictly above
\* nine tenths of max_hours
Above90(emp, d) == WeekHours(emp.id, d) * 10 > emp.max_hours * 60 * 9

RECURSIVE ExpectedDayWarnings(_, _)
\* the warnings due at the end of days[d] for the first k employees
ExpectedDayWarnings(d, k) ==
    IF k = 0 THEN <<>>
    ELSE ExpectedDayWarnings(d, k - 1) \o
         (IF Above90(employees[k], d)
          THEN <<WarningAlert(employees[k], WeekHours(employees[k].id, d))>>
          ELSE <<>>)

RECURSIVE ExpectedWarnings(_)
\* the warnings due for days[1..n]
ExpectedWarnings(n) ==
    IF n = 0 THEN <<>>
    ELSE ExpectedWarnings(n - 1) \o ExpectedDayWarnings(n, Len(employees))

\* C14: the warning alerts are, for each day whose assignment step is over
\* and in the order of the days, one alert for each employee whose hours at
\* the end of that day are strictly above 90% of max_hours, assigned that day
\* or not, and none for the others; an employee above the threshold at the
\* end of a day is above it at the end of every later day.
C14_WarningsEachDay ==
    Started =>
        /\ AlertsOfType("warning") = ExpectedWarnings(DaysDone)
        /\ \A e \in DOMAIN employees : \A d \in 1..DaysDone : \A later \in 1..DaysDone :
               (d < later /\ Above90(employees[e], d)) => Above90(employees[e], later)

\* the week is over; one employee stands at exactly 90% of max_hours and was
\* never warned, another was warned at the end of a day without a shift
C14_Witness ==
    /\ pc = "done"
    /\ \E e \in DOMAIN employees :
           LET emp == employees[e]
           IN  /\ AssignedHours(emp) * 10 = emp.max_hours * 60 * 9
               /\ \A a \in Range(AlertsOfType("warning")) : a.message[1] # emp.name
    /\ \E e \in DOMAIN employees : \E d \in DayIndexes :
           LET emp == employees[e]
           IN  /\ schedule[emp.id][days[d]] = <<>>
               /\ Above90(emp, d)
               /\ WarningAlert(emp, WeekHours(emp.id, d)) \in Range(alerts)

\* C15: a second call of generate on the same generator, over the same
\* employees and sites, returns the schedule, the alerts and the unassigned
\* shifts of the first call and leaves the same opportunity list; nothing of
\* the first call is carried over.
C15_SameInstanceSameResult ==
    (run = 2 /\ pc = "done") => Outcome = first

====
